---- MODULE Spec2Model ----
(***************************************************************************)
(* Model of generate_pinyin_map.py: download pinyin.txt, parse it line by  *)
(* line, keep the annotations the gb2312 codec can encode, strip the tone  *)
(* marks of every romanization variant, aggregate variant -> characters    *)
(* and write the sorted mapping to pinyin_mapping.txt.                     *)
(*                                                                         *)
(* A Python str is a sequence of code points (integers); the mapping is a  *)
(* function from keys (strings) to sets of strings.                        *)
(***************************************************************************)
EXTENDS Integers, Sequences, FiniteSets, TLC

(* The code points the model's texts are written with. *)
cp == [nl |-> 10, space |-> 32, hash |-> 35, comma |-> 44, one |-> 49,
       colon |-> 58, A |-> 65, U |-> 85, a |-> 97, b |-> 98, e |-> 101,
       l |-> 108, u |-> 117, a_acute |-> 225, u_uml |-> 252,
       acute |-> 769, diaeresis |-> 776,
       ling |-> 12295,      \* U+3007, the character of the source's format comment
       yi |-> 19968,        \* U+4E00
       ding |-> 19969]      \* U+4E01

(* ---------------- bounds ---------------- *)
MaxLines == 3
MaxTokenLen == 3

(* ---------------- Python str primitives ---------------- *)

(* str.strip() / str.split() whitespace (str.isspace) *)
IsSpace(c) == c \in {9, 10, 11, 12, 13, 28, 29, 30, 31, 32, 133, 160, 12288}

RECURSIVE LStrip(_)
LStrip(s) == IF s # <<>> /\ IsSpace(Head(s)) THEN LStrip(Tail(s)) ELSE s

RECURSIVE RStrip(_)
RStrip(s) ==
  IF s # <<>> /\ IsSpace(s[Len(s)]) THEN RStrip(SubSeq(s, 1, Len(s) - 1)) ELSE s

(* s.strip() *)
Strip(s) == RStrip(LStrip(s))

(* sep in s *)
Contains(s, sep) == \E i \in 1..Len(s) : s[i] = sep

(* s.split(sep) with a one-character separator and no maxsplit: every
   occurrence of sep cuts, the result has (number of sep) + 1 parts *)
RECURSIVE Split(_, _)
Split(s, sep) ==
  IF ~Contains(s, sep) THEN <<s>>
  ELSE LET i == CHOOSE j \in 1..Len(s) :
                  s[j] = sep /\ \A k \in 1..(j - 1) : s[k] # sep
       IN <<SubSeq(s, 1, i - 1)>> \o Split(SubSeq(s, i + 1, Len(s)), sep)

(* s.split(sep, 1): at most two parts *)
SplitOnce(s, sep) ==
  IF ~Contains(s, sep) THEN <<s>>
  ELSE LET i == CHOOSE j \in 1..Len(s) :
                  s[j] = sep /\ \A k \in 1..(j - 1) : s[k] # sep
       IN <<SubSeq(s, 1, i - 1), SubSeq(s, i + 1, Len(s))>>

(* sep.join(parts) *)
RECURSIVE Join(_, _)
Join(parts, sep) ==
  IF parts = <<>> THEN <<>>
  ELSE IF Len(parts) = 1 THEN parts[1]
  ELSE parts[1] \o <<sep>> \o Join(Tail(parts), sep)

(* s < t for Python strings: lexicographic on code points *)
RECURSIVE LexLess(_, _)
LexLess(s, t) ==
  IF t = <<>> THEN FALSE
  ELSE IF s = <<>> THEN TRUE
  ELSE IF Head(s) # Head(t) THEN Head(s) < Head(t)
  ELSE LexLess(Tail(s), Tail(t))

(* sorted(S) for a set of strings, descending: the order a reversed
   comparison would give *)
RECURSIVE SortedDesc(_)
SortedDesc(S) ==
  IF S = {} THEN <<>>
  ELSE LET m == CHOOSE x \in S : \A y \in S \ {x} : LexLess(y, x)
       IN <<m>> \o SortedDesc(S \ {m})

(* sorted(S) for a set of strings *)
RECURSIVE Sorted(_)
Sorted(S) ==
  IF S = {} THEN <<>>
  ELSE LET m == CHOOSE x \in S : \A y \in S \ {x} : LexLess(x, y)
       IN <<m>> \o Sorted(S \ {m})

(* ---------------- unicodedata / codecs / re ---------------- *)

(* unicodedata.normalize('NFD', c) for one code point *)
NFDChar(c) ==
  IF c = cp.a_acute THEN <<cp.a, cp.acute>>
  ELSE IF c = cp.u_uml THEN <<cp.u, cp.diaeresis>>
  ELSE <<c>>

RECURSIVE NFD(_)
NFD(s) == IF s = <<>> THEN <<>> ELSE NFDChar(Head(s)) \o NFD(Tail(s))

(* unicodedata.category(c) = 'Mn' *)
IsMn(c) == c \in 768..879

(* ''.join(c for c in s if unicodedata.category(c) != 'Mn') *)
RECURSIVE DropMn(_)
DropMn(s) ==
  IF s = <<>> THEN <<>>
  ELSE (IF IsMn(Head(s)) THEN <<>> ELSE <<Head(s)>>) \o DropMn(Tail(s))

(* strip_accents(s) *)
strip_accents(s) == DropMn(NFD(s))

(* c.lower() for one code point *)
LowerChar(c) == IF c \in 65..90 THEN c + 32 ELSE c

(* s.lower() *)
Lower(s) == [i \in 1..Len(s) |-> LowerChar(s[i])]

IsAZ(c) == c \in 97..122

(* re.sub(r'[^a-z]', '', s) *)
RECURSIVE RemoveNonAZ(_)
RemoveNonAZ(s) ==
  IF s = <<>> THEN <<>>
  ELSE (IF IsAZ(Head(s)) THEN <<Head(s)>> ELSE <<>>) \o RemoveNonAZ(Tail(s))

(* the clean-up with the [^a-z] removal left out *)
NormalizeNoFilter(p) == Lower(strip_accents(p))

(* p_clean of lines 57-59 *)
Normalize(p) == RemoveNonAZ(Lower(strip_accents(p)))

(* the gb2312 codec's repertoire, restricted to the code points of cp:
   ASCII, the pinyin letters of row 8, the level-1 hanzi U+4E00 and U+4E01,
   the ideographic space; U+3007 and the combining marks are not in it *)
GB2312 == (0..127) \cup {cp.a_acute, cp.u_uml, cp.yi, cp.ding, 12288}

(* a filter that accepts every annotation *)
EncodesAlways(character) == TRUE

(* character.encode('gb2312') does not raise UnicodeEncodeError *)
Encodes(character) == \A i \in 1..Len(character) : character[i] \in GB2312

(* ---------------- the loop body, lines 24-62 ---------------- *)

(* lines 25-27: the stripped line is empty or a comment *)
BlankOrComment(ln) ==
  LET s == Strip(ln) IN s = <<>> \/ s[1] = cp.hash

(* line.split('#', 1): the line cut at its first '#' only *)
partsOnce(ln) == SplitOnce(Strip(ln), cp.hash)

(* line 30: parts = line.split('#') *)
parts(ln) == Split(Strip(ln), cp.hash)

(* line 34: content = parts[0].strip() *)
contentOf(ln) == Strip(parts(ln)[1])

(* line 35: character = parts[1].strip() *)
characterOf(ln) == Strip(parts(ln)[2])

(* the romanization list taken from the last ':'-field, with no check that
   the content has a ':' *)
pinyinsLastField(content) ==
  LET fs == Split(content, cp.colon)
  IN Split(Strip(fs[Len(fs)]), cp.comma)

(* lines 45-49: no ':' in content skips the line (no variant); otherwise
   pinyins = content.split(':')[1].strip().split(',') *)
pinyins(content) ==
  IF ~Contains(content, cp.colon) THEN <<>>
  ELSE Split(Strip(Split(content, cp.colon)[2]), cp.comma)

(* an insertion that replaces the set of the key *)
addOverwrite(m, k, c) ==
  IF k \in DOMAIN m THEN [m EXCEPT ![k] = {c}] ELSE m @@ (k :> {c})

(* line 62: pinyin_map[p_clean].add(character) on a defaultdict(set) *)
add(m, k, c) ==
  IF k \in DOMAIN m THEN [m EXCEPT ![k] = @ \cup {c}] ELSE m @@ (k :> {c})

(* lines 52-62 for one variant p *)
variantStep(m, p, character) ==
  LET t == Strip(p)
  IN IF t = <<>> THEN m
     ELSE LET p_clean == Normalize(t)
          IN IF p_clean = <<>> THEN m ELSE add(m, p_clean, character)

(* a loop that uses the first variant only *)
variantLoopFirstOnly(m, ps, character) ==
  IF ps = <<>> THEN m ELSE variantStep(m, ps[1], character)

(* lines 51-62: for p in pinyins *)
RECURSIVE variantLoop(_, _, _)
variantLoop(m, ps, character) ==
  IF ps = <<>> THEN m
  ELSE variantLoop(variantStep(m, Head(ps), character), Tail(ps), character)

(* lines 25-42: the line passes the parser and the character filter *)
Accepted(ln) ==
  /\ ~BlankOrComment(ln)
  /\ Len(parts(ln)) >= 2
  /\ Encodes(characterOf(ln))

(* one iteration of the for loop of line 24 on the map m *)
loopBody(m, ln) ==
  IF Accepted(ln)
    THEN variantLoop(m, pinyins(contentOf(ln)), characterOf(ln))
    ELSE m

(* ---------------- the writer, lines 66-77 ---------------- *)

(* line 71: chars = sorted(list(pinyin_map[p])) *)
charsOf(m, p) == Sorted(m[p])

(* line 73: f"{p} {' '.join(chars)}" *)
outputLine(m, p) == p \o <<cp.space>> \o Join(charsOf(m, p), cp.space)

(* line 77: '\n'.join(output_lines) *)
fileText(ols) == Join(ols, cp.nl)

(* ---------------- inputs ---------------- *)

(* the content part of a record line: one variant and an empty one; three
   variants with blanks, an upper-case letter and a digit; two ':' *)
Contents ==
  { <<cp.U, cp.colon, cp.a_acute, cp.comma>>,
    <<cp.U, cp.colon, cp.space, cp.b, cp.comma, cp.A, cp.one, cp.comma,
      cp.one, cp.space>>,
    <<cp.U, cp.colon, cp.b, cp.colon, cp.a_acute>> }

(* the annotation part: none; empty; U+4E00; U+4E01 between blanks; U+3007 *)
Tails ==
  { <<>>,
    <<cp.hash>>,
    <<cp.hash, cp.yi>>,
    <<cp.hash, cp.space, cp.ding, cp.space>>,
    <<cp.hash, cp.ling>> }

(* lines with more than one '#', and with a blank inside the annotation *)
HashLines ==
  { <<cp.U, cp.colon, cp.a_acute, cp.comma, cp.hash, cp.hash>>,
    <<cp.U, cp.colon, cp.a_acute, cp.comma, cp.hash, cp.ding, cp.hash, cp.yi>>,
    <<cp.U, cp.colon, cp.b, cp.colon, cp.a_acute, cp.hash, cp.yi, cp.space, cp.ding>> }

(* blank lines, comment lines, a line without ':' *)
OtherLines ==
  { <<>>,
    <<cp.space>>,
    <<cp.hash, cp.yi>>,
    <<cp.space, cp.hash, cp.U, cp.colon, cp.a_acute>>,
    <<cp.U, cp.a_acute, cp.hash, cp.yi>> }

(* the lines that data.split('\n') can hold *)
Lines ==
  { c \o t : c \in Contents, t \in Tails } \cup HashLines \cup OtherLines

(* romanization tokens for the normalizer on its own *)
TokenAlphabet ==
  {cp.l, cp.u_uml, cp.e, cp.A, cp.a_acute, cp.acute, cp.one}

Tokens == UNION { [1..k -> TokenAlphabet] : k \in 0..MaxTokenLen }

(* a value no Python str has: a variable not yet bound, a file that does
   not exist *)
NoValue == <<-1>>

(* what pinyin_mapping.txt holds before the run: nothing, or the text of an
   earlier run *)
OldFiles == { NoValue, <<cp.a, cp.space, cp.yi>> }

(* ---------------- state ---------------- *)

VARIABLES
  pc,              \* position in generate_mapping
  fetches,         \* number of urlopen calls made
  n,               \* iterations of the for loop of line 24 done
  line,            \* the element of `lines` the latest iteration took
  seen,            \* the set of elements of `lines` iterated so far
  character,       \* the local `character` (line 35)
  pinyin_map,      \* the defaultdict(set) of line 17
  stdout,          \* what print() has written
  sorted_pinyins,  \* line 67
  output_lines,    \* line 69
  file,            \* content of pinyin_mapping.txt, NoValue if absent
  file_ops,        \* operations made on pinyin_mapping.txt
  tok,             \* normalizer on its own: the token
  p_once,          \* ... normalized
  p_twice          \* ... normalized again

vars == <<pc, fetches, n, line, seen, character, pinyin_map, stdout,
          sorted_pinyins, output_lines, file, file_ops, tok, p_once, p_twice>>

normVars == <<tok, p_once, p_twice>>
loopVars == <<n, line, seen, character, pinyin_map>>
writerVars == <<sorted_pinyins, output_lines, file, file_ops>>

Msg(m, c) == [msg |-> m, count |-> c]

Init ==
  /\ pc = "start"
  /\ fetches = 0
  /\ n = 0
  /\ line = NoValue
  /\ seen = {}
  /\ character = NoValue
  /\ pinyin_map = <<>>
  /\ stdout = <<>>
  /\ sorted_pinyins = <<>>
  /\ output_lines = <<>>
  /\ file \in OldFiles
  /\ file_ops = <<>>
  /\ tok = NoValue
  /\ p_once = NoValue
  /\ p_twice = NoValue

(* line 12: print(f"Downloading {url}...") *)
PrintDownloading ==
  /\ pc = "start"
  /\ stdout' = Append(stdout, Msg("Downloading", 0))
  /\ pc' = "fetch"
  /\ UNCHANGED <<fetches, loopVars, writerVars, normVars>>

(* lines 14-23: urlopen, read, decode and split succeed *)
FetchOk ==
  /\ pc = "fetch"
  /\ fetches' = fetches + 1
  /\ pc' = "loop"
  /\ UNCHANGED <<loopVars, stdout, writerVars, normVars>>

(* a failed fetch that leaves an empty output file behind *)
FetchFailTruncates ==
  /\ pc = "fetch"
  /\ fetches' = fetches + 1
  /\ pc' = "aborted"
  /\ file' = <<>>
  /\ file_ops' = Append(file_ops, "open")
  /\ UNCHANGED <<loopVars, stdout, sorted_pinyins, output_lines, normVars>>

(* lines 14-15: urlopen, read or decode raises; nothing catches it *)
FetchFail ==
  /\ pc = "fetch"
  /\ fetches' = fetches + 1
  /\ pc' = "aborted"
  /\ UNCHANGED <<loopVars, stdout, writerVars, normVars>>

(* lines 24-62: one iteration of the for loop, on the next element of lines *)
NextLine ==
  /\ pc = "loop"
  /\ n < MaxLines
  /\ \E ln \in Lines :
       /\ line' = ln
       /\ seen' = seen \cup {ln}
       /\ character' = IF ~BlankOrComment(ln) /\ Len(parts(ln)) >= 2
                         THEN characterOf(ln) ELSE character
       /\ pinyin_map' = loopBody(pinyin_map, ln)
  /\ n' = n + 1
  /\ UNCHANGED <<pc, fetches, stdout, writerVars, normVars>>

(* a count of the lines read instead of the keys *)
PrintProcessedLines ==
  /\ pc = "loop"
  /\ n >= 1
  /\ stdout' = Append(stdout, Msg("Processed", n))
  /\ pc' = "sort"
  /\ UNCHANGED <<fetches, loopVars, writerVars, normVars>>

(* line 64, once lines is exhausted (data.split('\n') has at least one
   element): print(f"Processed {len(pinyin_map)} unique pinyin syllables.") *)
PrintProcessed ==
  /\ pc = "loop"
  /\ n >= 1
  /\ stdout' = Append(stdout, Msg("Processed", Cardinality(DOMAIN pinyin_map)))
  /\ pc' = "sort"
  /\ UNCHANGED <<fetches, loopVars, writerVars, normVars>>

(* lines 66-74: sort the keys, build output_lines *)
BuildOutput ==
  /\ pc = "sort"
  /\ sorted_pinyins' = Sorted(DOMAIN pinyin_map)
  /\ output_lines' = LET sp == Sorted(DOMAIN pinyin_map)
                     IN [i \in 1..Len(sp) |-> outputLine(pinyin_map, sp[i])]
  /\ pc' = "write"
  /\ UNCHANGED <<fetches, loopVars, stdout, file, file_ops, normVars>>

(* lines 76-77: open 'w' (create or truncate), write, close *)
WriteFile ==
  /\ pc = "write"
  /\ file' = fileText(output_lines)
  /\ file_ops' = file_ops \o <<"open", "write", "close">>
  /\ pc' = "written"
  /\ UNCHANGED <<fetches, loopVars, stdout, sorted_pinyins, output_lines, normVars>>

(* line 79: print("Done. Saved to pinyin_mapping.txt") *)
PrintDone ==
  /\ pc = "written"
  /\ stdout' = Append(stdout, Msg("Done", 0))
  /\ pc' = "done"
  /\ UNCHANGED <<fetches, loopVars, writerVars, normVars>>

Next ==
  \/ PrintDownloading
  \/ FetchOk
  \/ FetchFail
  \/ NextLine
  \/ PrintProcessed
  \/ BuildOutput
  \/ WriteFile
  \/ PrintDone

Spec == Init /\ [][Next]_vars

(* ---------------- the normalizer on its own ---------------- *)

InitNorm ==
  /\ pc = "norm"
  /\ fetches = 0
  /\ n = 0
  /\ line = NoValue
  /\ seen = {}
  /\ character = NoValue
  /\ pinyin_map = <<>>
  /\ stdout = <<>>
  /\ sorted_pinyins = <<>>
  /\ output_lines = <<>>
  /\ file = NoValue
  /\ file_ops = <<>>
  /\ tok \in Tokens
  /\ p_once = NoValue
  /\ p_twice = NoValue

(* lines 57-59 applied to the token *)
NormalizeOnce ==
  /\ pc = "norm"
  /\ p_once' = Normalize(tok)
  /\ pc' = "norm1"
  /\ UNCHANGED <<fetches, loopVars, stdout, writerVars, tok, p_twice>>

(* lines 57-59 applied to the result *)
NormalizeTwice ==
  /\ pc = "norm1"
  /\ p_twice' = Normalize(p_once)
  /\ pc' = "norm2"
  /\ UNCHANGED <<fetches, loopVars, stdout, writerVars, tok, p_once>>

NextNorm == NormalizeOnce \/ NormalizeTwice

SpecNorm == InitNorm /\ [][NextNorm]_vars

(* ---------------- vocabulary of the properties ---------------- *)

Range(f) == { f[i] : i \in DOMAIN f }

(* the (key, character) pairs of a mapping *)
Pairs(m) == UNION { {k} \X m[k] : k \in DOMAIN m }

(* position of the first occurrence of ch in s (s contains ch) *)
FirstAt(s, ch) ==
  CHOOSE i \in 1..Len(s) : s[i] = ch /\ \A j \in 1..(i - 1) : s[j] # ch

(* the text of s after its first ch *)
AfterFirst(s, ch) == SubSeq(s, FirstAt(s, ch) + 1, Len(s))

(* the text of s before its first ch *)
BeforeFirst(s, ch) == SubSeq(s, 1, FirstAt(s, ch) - 1)

(* the text of s up to its first ch, all of s if it has none *)
UpToNext(s, ch) == IF Contains(s, ch) THEN BeforeFirst(s, ch) ELSE s

(* a line the parser skips: empty after trimming, a comment, without '#',
   or without ':' before the '#' *)
SkipCase(ln) ==
  LET s == Strip(ln)
  IN \/ s = <<>>
     \/ s[1] = cp.hash
     \/ ~Contains(s, cp.hash)
     \/ ~Contains(BeforeFirst(s, cp.hash), cp.colon)

(* the line has a '#' and is neither blank nor a comment *)
HasAnnotation(ln) ==
  LET s == Strip(ln)
  IN s # <<>> /\ s[1] # cp.hash /\ Contains(s, cp.hash)

(* the trimmed text of everything following the first '#' *)
AnnotationToEnd(ln) == Strip(AfterFirst(Strip(ln), cp.hash))

(* the trimmed text between the first '#' and the next one, if any *)
AnnotationToNextHash(ln) ==
  Strip(UpToNext(AfterFirst(Strip(ln), cp.hash), cp.hash))

(* every code point of c is in the codec's repertoire *)
InRepertoire(c) == \A i \in DOMAIN c : c[i] \in GB2312

(* the romanization list: everything of the content part after its ':' *)
RomanListToEnd(ln) ==
  Strip(AfterFirst(Strip(BeforeFirst(Strip(ln), cp.hash)), cp.colon))

(* the romanization list: the content part after its first ':' up to the
   next ':', if any *)
RomanListToNextColon(ln) ==
  Strip(UpToNext(AfterFirst(Strip(BeforeFirst(Strip(ln), cp.hash)), cp.colon),
                 cp.colon))

(* the pairs a line contributes, for a given reading of its list *)
Contribution(ln, list) ==
  IF SkipCase(ln) \/ ~InRepertoire(AnnotationToNextHash(ln)) THEN {}
  ELSE { <<Normalize(Strip(v)), AnnotationToNextHash(ln)>> :
           v \in { w \in Range(Split(list, cp.comma)) : Normalize(Strip(w)) # <<>> } }

(* s.split(): the maximal runs of non-whitespace *)
RECURSIVE SplitWs(_)
SplitWs(s) ==
  LET t == LStrip(s)
  IN IF t = <<>> THEN <<>>
     ELSE IF \E i \in 1..Len(t) : IsSpace(t[i])
       THEN LET i == CHOOSE j \in 1..Len(t) :
                       IsSpace(t[j]) /\ \A k \in 1..(j - 1) : ~IsSpace(t[k])
            IN <<SubSeq(t, 1, i - 1)>> \o SplitWs(SubSeq(t, i + 1, Len(t)))
       ELSE <<t>>

(* the mapping read back from the file's text: one entry per line, first
   token the key, the other tokens its characters *)
ParseBack(text) ==
  LET ls == Split(text, cp.nl)
      toks(i) == SplitWs(ls[i])
      idx == { i \in 1..Len(ls) : toks(i) # <<>> }
      keys == { toks(i)[1] : i \in idx }
  IN [ k \in keys |->
         UNION { Range(Tail(toks(i))) : i \in { j \in idx : toks(j)[1] = k } } ]

(* strictly increasing sequence of strings *)
StrictlyIncreasing(q) ==
  \A i \in 1..Len(q) : \A j \in (i + 1)..Len(q) : LexLess(q[i], q[j])

Written == pc \in {"written", "done"}

(* ---------------- C1 ---------------- *)

(* C1: reading the written file back (lines, then whitespace-separated
   tokens, first token the key) gives the mapping that was serialized: the
   same keys and for each key the same set of characters. *)
C1_RoundTrip ==
  Written => Pairs(ParseBack(file)) = Pairs(pinyin_map)
             /\ DOMAIN ParseBack(file) = DOMAIN pinyin_map

(* ---------------- C2 ---------------- *)

(* C2: the file has one line per key; the keys of successive lines are
   strictly increasing; the characters of each line are those of the key,
   strictly increasing. *)
C2_SortedOutput ==
  pc \in {"write", "written", "done"} =>
    /\ Len(output_lines) = Cardinality(DOMAIN pinyin_map)
    /\ Len(sorted_pinyins) = Len(output_lines)
    /\ Range(sorted_pinyins) = DOMAIN pinyin_map
    /\ StrictlyIncreasing(sorted_pinyins)
    /\ \A i \in 1..Len(output_lines) :
         LET cs == charsOf(pinyin_map, sorted_pinyins[i])
         IN /\ StrictlyIncreasing(cs)
            /\ Range(cs) = pinyin_map[sorted_pinyins[i]]
            /\ output_lines[i] = sorted_pinyins[i] \o <<cp.space>> \o Join(cs, cp.space)
            /\ BeforeFirst(output_lines[i], cp.space) = sorted_pinyins[i]
    /\ (Written /\ output_lines # <<>> => Split(file, cp.nl) = output_lines)
    /\ (Written /\ output_lines = <<>> => file = <<>>)

(* two keys, one of them with two characters, written *)
C2_Witness ==
  /\ pc = "done"
  /\ Cardinality(DOMAIN pinyin_map) >= 2
  /\ \E k \in DOMAIN pinyin_map : Cardinality(pinyin_map[k]) >= 2

(* ---------------- C3 ---------------- *)

(* C3: no annotation outside the codec's repertoire is a member of a set of
   the mapping or appears in the written file, and a line rejected by the
   filter adds nothing, its romanization list notwithstanding. *)
C3_FilteredNeverAppear ==
  /\ [](/\ \A k \in DOMAIN pinyin_map : \A c \in pinyin_map[k] : InRepertoire(c)
        /\ (Written => InRepertoire(file)))
  /\ [][ (n' = n + 1 /\ HasAnnotation(line')
            /\ ~InRepertoire(AnnotationToNextHash(line')))
         => pinyin_map' = pinyin_map ]_vars

(* a line with a well-formed list annotated with U+3007 was read after a
   line that was kept, and the file is written *)
C3_Witness ==
  /\ pc = "done"
  /\ line = <<cp.U, cp.colon, cp.a_acute, cp.comma, cp.hash, cp.ling>>
  /\ pinyin_map # <<>>

(* ---------------- C4 ---------------- *)

(* C4: an iteration on a skipped line (empty after trimming, comment, no
   '#', no ':' before the '#') leaves the mapping unchanged. *)
C4_SkippedLineNoEffect ==
  [][ (n' = n + 1 /\ SkipCase(line')) => pinyin_map' = pinyin_map ]_vars

(* the line without ':' but with an encodable annotation was read into a
   mapping that already had a key *)
C4_Witness ==
  /\ line = <<cp.U, cp.a_acute, cp.hash, cp.yi>>
  /\ n >= 2
  /\ pinyin_map # <<>>

(* ---------------- C5 ---------------- *)

(* C5: the file is touched only by the writer, after a successful fetch and
   the end of the loop; an aborted run has made one fetch and no operation
   on the file. *)
C5_NoPartialOutput ==
  /\ [](/\ fetches <= 1
        /\ (pc = "aborted" => file_ops = <<>> /\ file \in OldFiles)
        /\ (file_ops # <<>> => fetches = 1 /\ n >= 1 /\ Written))
  /\ [][ (file' # file \/ file_ops' # file_ops)
         => (pc = "write" /\ fetches = 1 /\ n >= 1
             /\ output_lines = [i \in 1..Len(sorted_pinyins) |->
                                  outputLine(pinyin_map, sorted_pinyins[i])]
             /\ Range(sorted_pinyins) = DOMAIN pinyin_map) ]_vars

(* the fetch failed *)
C5_Witness == pc = "aborted" /\ fetches = 1 /\ file_ops = <<>>

(* ---------------- C6 ---------------- *)

(* C6 as stated: a finished run has printed exactly two lines, the count
   of keys and the completion notice. *)
C6_TwoLines ==
  pc = "done" =>
    stdout = << Msg("Processed", Cardinality(DOMAIN pinyin_map)), Msg("Done", 0) >>

(* C6 amended: a finished run has printed exactly three lines: the download
   notice, the count of keys, the completion notice. *)
C6_ThreeLines ==
  pc = "done" =>
    stdout = << Msg("Downloading", 0),
                Msg("Processed", Cardinality(DOMAIN pinyin_map)),
                Msg("Done", 0) >>

(* a finished run that read more lines than it has keys *)
C6_Witness ==
  pc = "done" /\ Len(stdout) = 3 /\ Cardinality(DOMAIN pinyin_map) = 2 /\ n >= 3

(* ---------------- C7 ---------------- *)

(* C7: normalizing a normalized token returns it unchanged; the result has
   only the letters a-z; l-u-diaeresis-e gives l-u-e. *)
C7_Idempotent ==
  /\ (pc \in {"norm1", "norm2"} =>
        /\ \A i \in DOMAIN p_once : p_once[i] \in 97..122
        /\ (tok = <<cp.l, cp.u_uml, cp.e>> => p_once = <<cp.l, cp.u, cp.e>>))
  /\ (pc = "norm2" => p_twice = p_once)

(* a token with a tone mark, an upper-case letter and a digit, normalized
   twice *)
C7_Witness ==
  /\ pc = "norm2"
  /\ tok = <<cp.a_acute, cp.A, cp.one>>
  /\ p_twice = <<cp.a, cp.a>>

(* ---------------- C8 ---------------- *)

(* C8 as stated: the annotation is the trimmed text of everything after the
   first '#'. *)
C8_AnnotationToEnd ==
  [][ (n' = n + 1 /\ HasAnnotation(line'))
      => character' = AnnotationToEnd(line') ]_vars

(* C8 amended: the line is split at every '#'; the annotation is the
   trimmed text between the first '#' and the next one (the end of the line
   if there is none). *)
C8_AnnotationToNextHash ==
  [][ (n' = n + 1 /\ HasAnnotation(line'))
      => character' = AnnotationToNextHash(line') ]_vars

(* a line with a second '#' after the character was read *)
C8_Witness ==
  /\ line = <<cp.U, cp.colon, cp.a_acute, cp.comma, cp.hash, cp.ding, cp.hash, cp.yi>>
  /\ character = <<cp.ding>>
  /\ <<cp.ding>> \in pinyin_map[<<cp.a>>]

(* ---------------- C9 ---------------- *)

(* the line of the format comment, with three variants: annotated with
   U+3007, and with U+4E00 *)
ScenarioLing ==
  <<cp.U, cp.colon, cp.space, cp.b, cp.comma, cp.A, cp.one, cp.comma,
    cp.one, cp.space, cp.hash, cp.ling>>

ScenarioYi ==
  <<cp.U, cp.colon, cp.space, cp.b, cp.comma, cp.A, cp.one, cp.comma,
    cp.one, cp.space, cp.hash, cp.yi>>

(* no key is the empty string, no key has an empty set *)
NoEmptyEntry ==
  \A k \in DOMAIN pinyin_map : k # <<>> /\ pinyin_map[k] # {}

(* C9 as stated: c is in the set of k iff a line read so far is not
   skipped, has annotation c passing the filter and has, in the list after
   the ':' of its content part, a variant normalizing to k; the line
   annotated with U+3007 puts it under each of its keys. *)
C9_ExactContentToEnd ==
  /\ Pairs(pinyin_map) = UNION { Contribution(ln, RomanListToEnd(ln)) : ln \in seen }
  /\ NoEmptyEntry
  /\ (ScenarioLing \in seen =>
        /\ <<cp.b>> \in DOMAIN pinyin_map /\ <<cp.ling>> \in pinyin_map[<<cp.b>>]
        /\ <<cp.a>> \in DOMAIN pinyin_map /\ <<cp.ling>> \in pinyin_map[<<cp.a>>])

(* C9 amended: the list is the text between the first ':' of the content
   part and its next ':' (if any); U+3007 does not pass the filter, so that
   line adds nothing, and the same line annotated with U+4E00 puts it under
   exactly its keys. *)
C9_ExactContent ==
  /\ Pairs(pinyin_map) =
       UNION { Contribution(ln, RomanListToNextColon(ln)) : ln \in seen }
  /\ NoEmptyEntry
  /\ (seen = {ScenarioLing} => pinyin_map = <<>>)
  /\ (seen = {ScenarioYi} =>
        Pairs(pinyin_map) = { <<<<cp.b>>, <<cp.yi>>>>, <<<<cp.a>>, <<cp.yi>>>> })

(* the three-variant line and a line with two ':' were read *)
C9_Witness ==
  /\ ScenarioYi \in seen
  /\ <<cp.U, cp.colon, cp.b, cp.colon, cp.a_acute, cp.hash, cp.space, cp.ding,
       cp.space>> \in seen
  /\ Pairs(pinyin_map) = { <<<<cp.b>>, <<cp.yi>>>>, <<<<cp.a>>, <<cp.yi>>>>,
                           <<<<cp.b>>, <<cp.ding>>>> }

(* ---------------- C10 ---------------- *)

(* the loop run over a sequence of lines *)
RECURSIVE RunLoop(_, _)
RunLoop(m, ls) ==
  IF ls = <<>> THEN m ELSE RunLoop(loopBody(m, Head(ls)), Tail(ls))

(* the text the writer produces for a mapping *)
Serialized(m) ==
  LET sp == Sorted(DOMAIN m)
  IN fileText([i \in 1..Len(sp) |-> outputLine(m, sp[i])])

(* C10: whatever the order and the multiplicity in which the lines were
   read, the mapping is the one obtained by reading each distinct line once
   in a fixed order, and so is the text written; an iteration never removes
   a key or a character. *)
C10_OrderIndependent ==
  /\ [](pc \in {"loop", "done"} =>
          LET m == RunLoop(<<>>, Sorted(seen))
          IN /\ pinyin_map = m
             /\ pinyin_map = RunLoop(<<>>, SortedDesc(seen))
             /\ (pc = "done" => file = Serialized(m)))
  /\ [][ \A k \in DOMAIN pinyin_map :
           k \in DOMAIN pinyin_map' /\ pinyin_map[k] \subseteq pinyin_map'[k] ]_vars

(* a finished run that read a line twice and has a key with two characters *)
C10_Witness ==
  /\ pc = "done"
  /\ n > Cardinality(seen)
  /\ Cardinality(seen) >= 2
  /\ \E k \in DOMAIN pinyin_map : Cardinality(pinyin_map[k]) >= 2

====
